---- MODULE Spec2Model ----
\* Model of the pywebview desktop shell: src/src/index.py (entrypoint
\* resolution, start-up, the periodic ticker thread) and the bridge object's
\* save_content (src/src/index.py and its copy src/src/python/api.py).
\*
\* Strings whose characters matter (paths, file content) are sequences of
\* one-character strings: "/a" is <<"/", "a">>.
EXTENDS Integers, Sequences, FiniteSets, TLC

VARIABLES
    fileExists,   \* which candidate entry documents exist on disk
    pc,           \* position of the main thread in the module body of index.py
    entry,        \* module-level variable `entry`
    windows,      \* webview.windows: the list of open windows
    created,      \* number of webview.create_window calls made
    started,      \* number of update_ticker() calls made (timer threads created)
    tpc,          \* position of the timer thread inside loop()/update_ticker
    evals,        \* evaluate_js calls attempted during the current tick
    lastTick,     \* record of the last finished tick of the timer thread
    pushFailed,   \* an evaluate_js call of the ticker has raised
    indexedEmpty, \* webview.windows[0] was evaluated on an empty list
    fs,           \* the filesystem: file slot -> content, or NoFile
    fsBefore,     \* the filesystem as it was when the last save_content began
    call,         \* record of the last finished save_content call, or NoCall
    nSaves        \* number of save_content calls made

lifeVars == <<fileExists, pc, entry, windows, created, started, tpc, evals,
              lastTick, pushFailed, indexedEmpty>>
saveVars == <<fs, fsBefore, call, nSaves>>
vars == <<fileExists, pc, entry, windows, created, started, tpc, evals,
          lastTick, pushFailed, indexedEmpty, fs, fsBefore, call, nSaves>>

\* Number of save_content calls explored in one behaviour.
MaxSaves == 2

-----------------------------------------------------------------------------
\* Entrypoint resolution

DevPath == "../gui/index.html"
MacPath == "../Resources/gui/index.html"
GenericPath == "./gui/index.html"
Candidates == {DevPath, MacPath, GenericPath}
Unset == "unset"
NoEntry == "Exception: No index.html found"

\* get_entrypoint with the generic packaged layout probed before the macOS one.
GetEntrypointSwapped(ex) ==
    IF ex[DevPath] THEN DevPath
    ELSE IF ex[GenericPath] THEN GenericPath
    ELSE IF ex[MacPath] THEN MacPath
    ELSE NoEntry

\* get_entrypoint(): the returned path, or NoEntry when it raises.
GetEntrypoint(ex) ==
    IF ex[DevPath] THEN DevPath
    ELSE IF ex[MacPath] THEN MacPath
    ELSE IF ex[GenericPath] THEN GenericPath
    ELSE NoEntry

\* The fixed priority order of the three probes of get_entrypoint.
CandidateOrder == <<DevPath, MacPath, GenericPath>>

-----------------------------------------------------------------------------
\* Start-up: the module body of index.py, run by the main thread

NoTick == [done |-> FALSE, sawWindow |-> FALSE, open |-> FALSE,
           evals |-> <<>>, raised |-> FALSE]

\* Start-up that goes on to create the window when get_entrypoint raised.
ResolveEntryContinues ==
    /\ pc = "import"
    /\ LET e == GetEntrypoint(fileExists) IN
         /\ pc' = "main"
         /\ entry' = IF e = NoEntry THEN entry ELSE e
    /\ UNCHANGED <<fileExists, windows, created, started, tpc, evals, lastTick,
                   pushFailed, indexedEmpty>>
    /\ UNCHANGED saveVars

\* entry = get_entrypoint(); an exception at module level ends the process.
ResolveEntry ==
    /\ pc = "import"
    /\ LET e == GetEntrypoint(fileExists) IN
         IF e = NoEntry
         THEN /\ pc' = "fatal"
              /\ entry' = entry
         ELSE /\ pc' = "main"
              /\ entry' = e
    /\ UNCHANGED <<fileExists, windows, created, started, tpc, evals, lastTick,
                   pushFailed, indexedEmpty>>
    /\ UNCHANGED saveVars

\* window = webview.create_window(title, entry, js_api=Api())
CreateWindow ==
    /\ pc = "main"
    /\ windows' = Append(windows, [url |-> entry])
    /\ created' = created + 1
    /\ pc' = "start"
    /\ UNCHANGED <<fileExists, entry, started, tpc, evals, lastTick,
                   pushFailed, indexedEmpty>>
    /\ UNCHANGED saveVars

\* webview.start(update_ticker): the toolkit calls update_ticker() once; the
\* set_interval wrapper creates and starts the daemon thread running loop().
StartUpdater ==
    /\ pc = "start"
    /\ started' = started + 1
    /\ tpc' = "wait"
    /\ pc' = "loop"
    /\ UNCHANGED <<fileExists, entry, windows, created, evals, lastTick,
                   pushFailed, indexedEmpty>>
    /\ UNCHANGED saveVars

\* The user closes the window while the event loop runs: the toolkit removes
\* it from webview.windows. The timer is not cancelled.
CloseWindow ==
    /\ pc = "loop"
    /\ Len(windows) > 0
    /\ windows' = <<>>
    /\ UNCHANGED <<fileExists, pc, entry, created, started, tpc, evals,
                   lastTick, pushFailed, indexedEmpty>>
    /\ UNCHANGED saveVars

\* webview.start returns once the window is closed and the process exits; the
\* timer thread is a daemon (t.daemon = True) and ends with it.
Exit ==
    /\ pc = "loop"
    /\ Len(windows) = 0
    /\ pc' = "exit"
    /\ tpc' = IF tpc \in {"wait", "checked", "call"} THEN "exit" ELSE tpc
    /\ UNCHANGED <<fileExists, entry, windows, created, started, evals,
                   lastTick, pushFailed, indexedEmpty>>
    /\ UNCHANGED saveVars

-----------------------------------------------------------------------------
\* The timer thread: loop() of set_interval running update_ticker

\* stopped.wait(interval) times out (stopped is never set), loop() calls
\* update_ticker, which evaluates len(webview.windows) > 0.
Tick ==
    /\ tpc = "wait"
    /\ evals' = <<>>
    /\ IF Len(windows) > 0
       THEN /\ tpc' = "checked"
            /\ lastTick' = lastTick
       ELSE /\ tpc' = "wait"
            /\ lastTick' = [done |-> TRUE, sawWindow |-> FALSE, open |-> FALSE,
                            evals |-> <<>>, raised |-> FALSE]
    /\ UNCHANGED <<fileExists, pc, entry, windows, created, started,
                   pushFailed, indexedEmpty>>
    /\ UNCHANGED saveVars

\* webview.windows[0], evaluated after the length check without any lock: on
\* an empty list it raises IndexError, which nothing in loop() catches.
IndexWindow ==
    /\ tpc = "checked"
    /\ IF Len(windows) = 0
       THEN /\ indexedEmpty' = TRUE
            /\ tpc' = "dead"
            /\ lastTick' = [done |-> TRUE, sawWindow |-> TRUE, open |-> FALSE,
                            evals |-> evals, raised |-> TRUE]
       ELSE /\ indexedEmpty' = indexedEmpty
            /\ tpc' = "call"
            /\ lastTick' = lastTick
    /\ UNCHANGED <<fileExists, pc, entry, windows, created, started, evals,
                   pushFailed>>
    /\ UNCHANGED saveVars

\* The hooks update_ticker pushes to, in order: one evaluate_js call.
Hooks == <<"set_ticker">>

\* What loop() does with an exception raised by function(): it has no handler,
\* so the exception ends the thread.
AfterRaise == "dead"

\* .evaluate_js('... set_ticker("%d")' % time()) on the handle: the call
\* returns, or raises (page not loaded, hook evaluation fails, window gone).
EvaluateJs ==
    /\ tpc = "call"
    /\ \E ok \in BOOLEAN :
         /\ evals' = evals \o Hooks
         /\ pushFailed' = (pushFailed \/ ~ok)
         /\ tpc' = IF ok THEN "wait" ELSE AfterRaise
         /\ lastTick' = [done |-> TRUE, sawWindow |-> TRUE,
                         open |-> Len(windows) > 0,
                         evals |-> evals \o Hooks, raised |-> ~ok]
    /\ UNCHANGED <<fileExists, pc, entry, windows, created, started,
                   indexedEmpty>>
    /\ UNCHANGED saveVars

-----------------------------------------------------------------------------
\* Paths: pathlib's normalisation and the kernel's path walk

\* Python's s.split("/").
RECURSIVE SplitAcc(_, _, _)
SplitAcc(s, cur, acc) ==
    IF s = <<>> THEN Append(acc, cur)
    ELSE IF Head(s) = "/" THEN SplitAcc(Tail(s), <<>>, Append(acc, cur))
    ELSE SplitAcc(Tail(s), Append(cur, Head(s)), acc)

Split(s) == SplitAcc(s, <<>>, <<>>)

\* "/".join(parts)
RECURSIVE Join(_)
Join(parts) ==
    IF parts = <<>> THEN <<>>
    ELSE IF Len(parts) = 1 THEN parts[1]
    ELSE parts[1] \o <<"/">> \o Join(Tail(parts))

RECURSIVE LeadingSlashes(_)
LeadingSlashes(s) ==
    IF s = <<>> \/ Head(s) # "/" THEN 0 ELSE 1 + LeadingSlashes(Tail(s))

\* The root pathlib keeps for a POSIX path: exactly two leading slashes are
\* kept as "//", any other number of them is "/".
PathRoot(s) ==
    IF LeadingSlashes(s) = 0 THEN <<>>
    ELSE IF LeadingSlashes(s) = 2 THEN <<"/", "/">>
    ELSE <<"/">>

\* The parts pathlib keeps: empty and "." components are dropped, ".." is kept.
PathParts(s) == SelectSeq(Split(s), LAMBDA c : c # <<>> /\ c # <<".">>)

\* str(Path(s)): the normalised spelling; the path without root and parts is ".".
PathStr(s) ==
    IF PathRoot(s) = <<>> /\ PathParts(s) = <<>> THEN <<".">>
    ELSE PathRoot(s) \o Join(PathParts(s))

\* The directories of the model: the root, the working directory and its
\* parent. No other directory exists, and none has a name the dialog's paths
\* can spell.
ParentOf(dir) == IF dir = "cwd" THEN "parent" ELSE "root"

NoName == <<>>

\* The kernel's walk of the components of a path from directory dir: the
\* last component names a file slot in the directory reached, "." and ".."
\* name directories, and a name that must be a directory is none.
RECURSIVE Walk(_, _, _, _)
Walk(comps, i, dir, trailing) ==
    IF i > Len(comps) THEN [kind |-> "dir", slot |-> <<dir, NoName>>]
    ELSE IF comps[i] = <<".">> THEN Walk(comps, i + 1, dir, trailing)
    ELSE IF comps[i] = <<".", ".">> THEN Walk(comps, i + 1, ParentOf(dir), trailing)
    ELSE IF i = Len(comps) /\ ~trailing THEN [kind |-> "file", slot |-> <<dir, comps[i]>>]
    ELSE [kind |-> "notdir", slot |-> <<dir, comps[i]>>]

\* What the path s names for open(2): a file slot, a directory, a component
\* that is not a directory, or nothing (the empty path).
OsResolve(s) ==
    IF s = <<>> THEN [kind |-> "empty", slot |-> <<"cwd", NoName>>]
    ELSE Walk(SelectSeq(Split(s), LAMBDA c : c # <<>>), 1,
              IF Head(s) = "/" THEN "root" ELSE "cwd",
              s[Len(s)] = "/")

-----------------------------------------------------------------------------
\* The save dialog's results and the inputs of save_content

\* The paths the dialog hands back: "", "/", "//", "/.", ".", "a", "b", "/a",
\* "./a", "a/", "a/b".
DialogPaths ==
    { <<>>, <<"/">>, <<"/", "/">>, <<"/", ".">>, <<".">>, <<"a">>, <<"b">>,
      <<"/", "a">>, <<".", "/", "a">>, <<"a", "/">>, <<"a", "/", "b">> }

\* create_file_dialog returns None, a string, or a list (empty or holding one
\* path); path is the string itself or filename[0].
DialogResults ==
    { [type |-> "None", len |-> 0, path |-> <<>>],
      [type |-> "list", len |-> 0, path |-> <<>>] }
    \cup { [type |-> t, len |-> 1, path |-> p] : t \in {"str", "list"}, p \in DialogPaths }

Contents == { <<>>, <<"x">>, <<"x", "y">> }

\* What the environment does to the open/write/close sequence.
Faults == {"none", "open_eacces", "open_enoent", "write_enospc", "close_eio"}

\* str(Path(p)) and the kernel's resolution, tabulated for the dialog's paths.
PathStrOf == [p \in DialogPaths |-> PathStr(p)]
ResolveOf == [s \in {PathStr(p) : p \in DialogPaths} |-> OsResolve(s)]

\* The file slots the dialog's paths can name, raw or normalised.
Slots ==
    { r.slot : r \in { x \in { OsResolve(p) : p \in DialogPaths }
                              \cup { OsResolve(PathStr(p)) : p \in DialogPaths } :
                       x.kind \in {"file", "notdir"} } }

NoFile == [exists |-> FALSE, data |-> <<>>]
EmptyFs == [sl \in Slots |-> NoFile]

-----------------------------------------------------------------------------
\* Api.save_content

\* A test for None only, in place of `not filename`.
FalsyNoneOnly(filename) == filename.type = "None"

\* `not filename`: None, the empty string and the empty list are falsy.
Falsy(filename) ==
    \/ filename.type = "None"
    \/ filename.type = "str" /\ filename.path = <<>>
    \/ filename.type = "list" /\ filename.len = 0

\* filepath = Path(filename[0]) for a list, Path(filename) otherwise; the
\* code only ever uses str(filepath) and filepath.open.
FilePath(filename) == PathStrOf[filename.path]

\* str(filepath) == '/' or str(filepath) == ''
IsInvalidPath(filepath) == filepath = <<"/">> \/ filepath = <<>>

\* The exception classes open/write/close raise, and their bases.
BaseOf(cls) ==
    IF cls \in {"PermissionError", "FileNotFoundError", "IsADirectoryError",
                "NotADirectoryError"} THEN "OSError"
    ELSE IF cls = "OSError" THEN "Exception"
    ELSE "BaseException"

RECURSIVE IsInstance(_, _)
IsInstance(cls, of) ==
    IF cls = of THEN TRUE
    ELSE IF cls = "BaseException" THEN FALSE
    ELSE IsInstance(BaseOf(cls), of)

\* A handler for permission errors only.
CaughtPermissionOnly(exc) == IsInstance(exc, "PermissionError")

\* except Exception as e:
Caught(exc) == IsInstance(exc, "Exception")

\* Mode 'a': the file is created, or kept as it is when it exists.
OpenedFileAppend(old) == [exists |-> TRUE, data |-> old.data]

\* Mode 'w': the file is created, or truncated when it exists.
OpenedFile(old) == [exists |-> TRUE, data |-> <<>>]

\* An open that creates or truncates the target before the fault is noticed.
FileOpenTruncatesFirst(f, filepath, fault) ==
    LET r == ResolveOf[filepath] IN
      IF r.kind = "empty" THEN [exc |-> "FileNotFoundError", fs |-> f, slot |-> r.slot]
      ELSE IF r.kind = "dir" THEN [exc |-> "IsADirectoryError", fs |-> f, slot |-> r.slot]
      ELSE IF r.kind = "notdir"
        THEN [exc |-> IF f[r.slot].exists THEN "NotADirectoryError" ELSE "FileNotFoundError",
              fs |-> f, slot |-> r.slot]
      ELSE [exc |-> IF fault = "open_eacces" THEN "PermissionError"
                    ELSE IF fault = "open_enoent" THEN "FileNotFoundError"
                    ELSE "none",
            fs |-> [f EXCEPT ![r.slot] = OpenedFile(f[r.slot])],
            slot |-> r.slot]

\* filepath.open('w'): the exception raised ("none" when the file is open)
\* and the filesystem afterwards.
FileOpen(f, filepath, fault) ==
    LET r == ResolveOf[filepath] IN
      IF r.kind = "empty" THEN [exc |-> "FileNotFoundError", fs |-> f, slot |-> r.slot]
      ELSE IF r.kind = "dir" THEN [exc |-> "IsADirectoryError", fs |-> f, slot |-> r.slot]
      ELSE IF r.kind = "notdir"
        THEN [exc |-> IF f[r.slot].exists THEN "NotADirectoryError" ELSE "FileNotFoundError",
              fs |-> f, slot |-> r.slot]
      ELSE IF fault = "open_eacces" THEN [exc |-> "PermissionError", fs |-> f, slot |-> r.slot]
      ELSE IF fault = "open_enoent" THEN [exc |-> "FileNotFoundError", fs |-> f, slot |-> r.slot]
      ELSE [exc |-> "none", fs |-> [f EXCEPT ![r.slot] = OpenedFile(f[r.slot])],
            slot |-> r.slot]

\* f.write(content) and the close at the end of the with block: all of
\* content reaches the file, or the step fails with OSError after only the
\* first k characters reached it.
FileWrite(f, slot, content, fault, k) ==
    IF fault \in {"write_enospc", "close_eio"}
    THEN [exc |-> "OSError",
          fs |-> [f EXCEPT ![slot].data = @ \o SubSeq(content, 1, k)]]
    ELSE [exc |-> "none", fs |-> [f EXCEPT ![slot].data = @ \o content]]

SaveRecord(filename, content, fault, stage, opened, exc, f) ==
    [done |-> TRUE, filename |-> filename, content |-> content, fault |-> fault,
     stage |-> stage, opened |-> opened, exc |-> exc,
     outcome |-> IF exc = "none" \/ Caught(exc) THEN "returned" ELSE "raised",
     fs |-> f]

\* save_content(content) when the dialog returns filename: where the call
\* ends, whether it tried to open the target, and the filesystem it leaves.
SaveContentResult(f, content, filename, fault, k) ==
    IF Falsy(filename)
    THEN SaveRecord(filename, content, fault, "no_filename", FALSE, "none", f)
    ELSE IF IsInvalidPath(FilePath(filename))
    THEN SaveRecord(filename, content, fault, "invalid_path", FALSE, "none", f)
    ELSE LET o == FileOpen(f, FilePath(filename), fault) IN
      IF o.exc # "none"
      THEN SaveRecord(filename, content, fault, "open_failed", TRUE, o.exc, o.fs)
      ELSE LET w == FileWrite(o.fs, o.slot, content, fault, k) IN
        IF w.exc # "none"
        THEN SaveRecord(filename, content, fault, "write_failed", TRUE, w.exc, w.fs)
        ELSE SaveRecord(filename, content, fault, "saved", TRUE, "none", w.fs)

NoCall ==
    [done |-> FALSE, filename |-> [type |-> "None", len |-> 0, path |-> <<>>],
     content |-> <<>>, fault |-> "none", stage |-> "none", opened |-> FALSE,
     exc |-> "none", outcome |-> "none", fs |-> EmptyFs]

\* The front end calls save_content(content); the dialog returns filename.
SaveContent ==
    /\ pc = "loop"
    /\ Len(windows) > 0
    /\ nSaves < MaxSaves
    /\ \E content \in Contents, filename \in DialogResults, fault \in Faults :
         \E k \in 0 .. Len(content) :
           /\ IF fault \in {"write_enospc", "close_eio"}
              THEN k = 0 \/ k < Len(content)
              ELSE k = 0
           /\ call' = SaveContentResult(fs, content, filename, fault, k)
           /\ fs' = call'.fs
    /\ fsBefore' = fs
    /\ nSaves' = nSaves + 1
    /\ UNCHANGED lifeVars

-----------------------------------------------------------------------------
\* The application's life cycle

Init ==
    /\ fileExists \in [Candidates -> BOOLEAN]
    /\ pc = "import"
    /\ entry = Unset
    /\ windows = <<>>
    /\ created = 0
    /\ started = 0
    /\ tpc = "none"
    /\ evals = <<>>
    /\ lastTick = NoTick
    /\ pushFailed = FALSE
    /\ indexedEmpty = FALSE
    /\ fs = EmptyFs
    /\ fsBefore = EmptyFs
    /\ call = NoCall
    /\ nSaves = 0

Next ==
    \/ ResolveEntry
    \/ CreateWindow
    \/ StartUpdater
    \/ CloseWindow
    \/ Exit
    \/ Tick
    \/ IndexWindow
    \/ EvaluateJs

Spec == Init /\ [][Next]_vars

-----------------------------------------------------------------------------
\* The bridge in use: the window is open and the front end calls save_content

\* A file the user saved in an earlier session.
OldFile == [exists |-> TRUE, data |-> <<"o">>]

SaveInit ==
    /\ fileExists = [c \in Candidates |-> c = DevPath]
    /\ pc = "loop"
    /\ entry = GetEntrypoint(fileExists)
    /\ windows = <<[url |-> entry]>>
    /\ created = 1
    /\ started = 1
    /\ tpc = "wait"
    /\ evals = <<>>
    /\ lastTick = NoTick
    /\ pushFailed = FALSE
    /\ indexedEmpty = FALSE
    /\ fs \in {EmptyFs} \cup {[EmptyFs EXCEPT ![sl] = OldFile] : sl \in Slots}
    /\ fsBefore = fs
    /\ call = NoCall
    /\ nSaves = 0

SaveNext == SaveContent

SaveSpec == SaveInit /\ [][SaveNext]_vars

-----------------------------------------------------------------------------
\* Properties of save_content (checked under SaveSpec)

\* The path the dialog handed back in the last call, and what it names.
ChosenPath == call.filename.path
ChosenSlot == OsResolve(ChosenPath).slot
WrittenSlot == OsResolve(PathStr(ChosenPath)).slot

FileWith(content) == [exists |-> TRUE, data |-> content]
OthersUnchanged(slot) == \A sl \in Slots \ {slot} : fs[sl] = fsBefore[sl]
IsPrefix(a, b) == Len(a) <= Len(b) /\ a = SubSeq(b, 1, Len(a))

\* The same dialog result in the other return shape.
OtherShape(filename) ==
    [filename EXCEPT !.type = IF @ = "str" THEN "list" ELSE "str"]

\* C1: when the dialog returns a path p that is neither empty nor the root and
\* names a file location, as a string or as a one-element list, and the
\* open/write/close sequence succeeds, the file at p holds exactly the content
\* passed, no other file has been created or changed, and the other return
\* shape would have left the same filesystem.
C1_RoundTrip ==
    ( /\ call.done
      /\ call.stage = "saved"
      /\ call.filename.len = 1
      /\ ChosenPath # <<>>
      /\ ChosenPath # <<"/">>
      /\ OsResolve(ChosenPath).kind = "file" )
    => /\ fs[ChosenSlot] = FileWith(call.content)
       /\ OthersUnchanged(ChosenSlot)
       /\ fs = SaveContentResult(fsBefore, call.content, OtherShape(call.filename),
                                 call.fault, 0).fs

\* A list holding "./a" was saved over a file that already existed at "a",
\* beside another file at "/a".
C1_Witness ==
    /\ call.done
    /\ call.stage = "saved"
    /\ call.filename = [type |-> "list", len |-> 1, path |-> <<".", "/", "a">>]
    /\ call.content = <<"x", "y">>
    /\ fsBefore[<<"cwd", <<"a">>>>].exists
    /\ fsBefore[<<"root", <<"a">>>>].exists

\* C2: save_content never raises outward: whatever the dialog returned
\* (nothing, a path string, a one-element list) and whichever of the open,
\* write and close steps failed, the call returns normally.
C2_NeverRaises == call.done => call.outcome = "returned"

\* The write step failed with the disk full after the target was opened, and
\* the call returned.
C2_Witness ==
    /\ call.done
    /\ call.fault = "write_enospc"
    /\ call.stage = "write_failed"
    /\ call.exc = "OSError"
    /\ call.outcome = "returned"

\* C3: when the dialog returns no path (None, the empty string or the empty
\* list), save_content returns without error, never opens a file, and leaves the
\* filesystem as it was.
C3_CancelIsNoop ==
    ( /\ call.done
      /\ \/ call.filename.type = "None"
         \/ call.filename.len = 0
         \/ call.filename.type = "str" /\ call.filename.path = <<>> )
    => /\ call.outcome = "returned"
       /\ ~call.opened
       /\ fs = fsBefore

\* The dialog was cancelled with an empty string while a saved file existed.
C3_Witness ==
    /\ call.done
    /\ call.filename = [type |-> "str", len |-> 1, path |-> <<>>]
    /\ call.stage = "no_filename"
    /\ \E sl \in Slots : fs[sl].exists

\* C4: when the chosen path is empty or is the filesystem root, as the string
\* itself or as a one-element list, save_content returns at the invalid-path
\* check (the plain empty string already at the no-filename check) without
\* attempting to open the target, and no file is written.
C4_InvalidPathRejected ==
    ( /\ call.done
      /\ call.filename.len = 1
      /\ ChosenPath \in {<<>>, <<"/">>} )
    => /\ ~call.opened
       /\ fs = fsBefore
       /\ call.stage = IF call.filename.type = "str" /\ ChosenPath = <<>>
                       THEN "no_filename" ELSE "invalid_path"

\* C5 as stated: every call either leaves the chosen path holding exactly the
\* content passed and nothing else changed, or leaves every file as it was -
\* also when the write step fails after the target was opened.
C5_AllOrNothing ==
    call.done =>
      \/ fs = fsBefore
      \/ fs[WrittenSlot] = FileWith(call.content) /\ OthersUnchanged(WrittenSlot)

\* C5 (amended): every call of a sequence of save_content calls ends in one of
\* three ways. It returned before or at the open step and no file changed; or
\* it saved, and the chosen path holds exactly the content passed; or the write
\* or close step failed after the target was opened, and the chosen path then
\* exists and holds only a prefix of the content passed (what it held before is
\* lost). In all three no file at another path is created or changed.
C5_TargetOnly ==
    call.done =>
      /\ OthersUnchanged(WrittenSlot)
      /\ call.stage \in {"no_filename", "invalid_path", "open_failed"} => fs = fsBefore
      /\ call.stage = "saved" => fs[WrittenSlot] = FileWith(call.content)
      /\ call.stage = "write_failed" =>
           /\ fs[WrittenSlot].exists
           /\ IsPrefix(fs[WrittenSlot].data, call.content)
      /\ call.stage \in {"no_filename", "invalid_path", "open_failed", "saved",
                         "write_failed"}

\* The second call of a sequence failed in its write step over a file that
\* the first call had saved: the file is left with a proper prefix.
C5_Witness ==
    /\ nSaves = 2
    /\ call.stage = "write_failed"
    /\ call.content = <<"x", "y">>
    /\ fsBefore[WrittenSlot] = FileWith(<<"x", "y">>)
    /\ fs[WrittenSlot] = FileWith(<<"x">>)

-----------------------------------------------------------------------------
\* Properties of start-up and of the ticker (checked under Spec)

TimerRunning == tpc \in {"wait", "checked", "call"}

RECURSIVE Count(_, _)
Count(seq, x) ==
    IF seq = <<>> THEN 0
    ELSE (IF Head(seq) = x THEN 1 ELSE 0) + Count(Tail(seq), x)

\* C6: a failed ticker push does not stop the periodic updater: while the
\* process is running, the timer thread is still alive after an evaluation
\* call has failed, so it fires again at the next interval.
C6_TimerSurvivesFailedPush == (pushFailed /\ pc = "loop") => TimerRunning

\* C7: a tick at which the window is open attempts exactly one evaluation call
\* for the set-ticker hook and exactly one for the set-name hook, whether or
\* not one of the calls failed.
C7_OneCallPerHook ==
    (lastTick.done /\ lastTick.open) =>
      /\ Count(lastTick.evals, "set_ticker") = 1
      /\ Count(lastTick.evals, "set_name") = 1

\* C8: a tick at which no window is open attempts no evaluation call and no
\* access to a window handle, and the timer keeps running; under any
\* interleaving of the window closing with a tick, the updater never indexes
\* the first window of an empty window list.
C8_NoWindowNoAccess ==
    /\ ~indexedEmpty
    /\ (lastTick.done /\ ~lastTick.sawWindow) =>
         /\ lastTick.evals = <<>>
         /\ ~lastTick.raised
         /\ pc = "loop" => TimerRunning

\* C9: get_entrypoint returns the first candidate, in the order development,
\* packaged macOS, generic packaged, that exists, and raises when none does.
C9_FirstExisting ==
    pc # "import" =>
      /\ \A i \in 1 .. Len(CandidateOrder) :
           entry = CandidateOrder[i]
             <=> /\ fileExists[CandidateOrder[i]]
                 /\ \A j \in 1 .. (i - 1) : ~fileExists[CandidateOrder[j]]
      /\ (pc = "fatal") <=> (\A c \in Candidates : ~fileExists[c])
      /\ pc = "fatal" => entry = Unset

\* Only the generic packaged document exists and it was resolved.
C9_Witness ==
    /\ pc = "main"
    /\ fileExists = [c \in Candidates |-> c = GenericPath]
    /\ entry = GenericPath

\* C10: the window is created only after the entrypoint was resolved and is
\* bound to the resolved path; the updater is started only after the window was
\* created, and exactly once; when no entry document exists no window is ever
\* created and the updater is never started.
C10_StartupOrder ==
    /\ created > 0 =>
         /\ entry \in Candidates
         /\ fileExists[entry]
         /\ \A i \in 1 .. Len(windows) : windows[i].url = entry
    /\ Len(windows) <= created
    /\ created <= 1
    /\ started > 0 => created > 0
    /\ started <= 1
    /\ TimerRunning => started = 1
    /\ pc \in {"loop", "exit"} => started = 1
    /\ (\A c \in Candidates : ~fileExists[c]) =>
         /\ created = 0
         /\ started = 0
         /\ windows = <<>>
         /\ tpc = "none"

\* The event loop runs with the one window bound to the macOS bundle's
\* document and the updater started once.
C10_Witness ==
    /\ pc = "loop"
    /\ created = 1
    /\ started = 1
    /\ Len(windows) = 1
    /\ windows[1].url = MacPath
    /\ tpc = "wait"

====
